---- MODULE Spec2Model ----
(***************************************************************************)
(* Model of hermes/util.py: slack_message and email_message.               *)
(*                                                                         *)
(* Python values are tagged records of one shape: t is the type tag, s the *)
(* content of a string (a sequence of tokens, "," being the separator      *)
(* token), l the items of a list.  Text is a sequence of tokens.           *)
(***************************************************************************)
EXTENDS Integers, Sequences, FiniteSets, TLC

VARIABLES settings, pc, call, result, args, loc, msg, sent, smtpOpen,
          smtpConnects, httpPosts, slack, warnings, debugs

vars == <<settings, pc, call, result, args, loc, msg, sent, smtpOpen,
          smtpConnects, httpPosts, slack, warnings, debugs>>

\* Longest list of addresses (and longest comma-joined string) a caller passes.
MaxList == 2
\* Most SMTP connections left open before the model stops issuing email calls.
MaxOpen == 1

----------------------------------------------------------------------------
\* Python values

PyNone == [t |-> "none", s |-> <<>>, l |-> <<>>]
PyStr(s) == [t |-> "str", s |-> s, l |-> <<>>]
PyList(l) == [t |-> "list", s |-> <<>>, l |-> l]

\* isinstance(v, basestring)
IsStr(v) == v.t = "str"

\* Python truth value of None, a string or a list
Truthy(v) ==
    CASE v.t = "none" -> FALSE
      [] v.t = "str" -> v.s # <<>>
      [] v.t = "list" -> v.l # <<>>

\* s.split(","): the list of the pieces between the separators; "" gives [""]
RECURSIVE SplitFrom(_, _)
SplitFrom(s, cur) ==
    IF s = <<>> THEN <<PyStr(cur)>>
    ELSE IF Head(s) = "," THEN <<PyStr(cur)>> \o SplitFrom(Tail(s), <<>>)
    ELSE SplitFrom(Tail(s), Append(cur, Head(s)))

Split(s) == SplitFrom(s, <<>>)

\* sep.join(l) raises TypeError when an item of l is not a string
JoinRaises(l) == \E i \in DOMAIN l : ~IsStr(l[i])

RECURSIVE JoinStr(_, _)
JoinStr(sep, l) ==
    IF l = <<>> THEN <<>>
    ELSE IF Len(l) = 1 THEN l[1].s
    ELSE l[1].s \o sep \o JoinStr(sep, Tail(l))

\* str() of a value, as "{}".format renders it
RECURSIVE Repr(_)
RECURSIVE ReprItems(_)
Repr(v) ==
    CASE v.t = "none" -> <<"None">>
      [] v.t = "str" -> <<"'">> \o v.s \o <<"'">>
      [] v.t = "list" -> <<"[">> \o ReprItems(v.l) \o <<"]">>
ReprItems(l) ==
    IF l = <<>> THEN <<>>
    ELSE IF Len(l) = 1 THEN Repr(l[1])
    ELSE Repr(l[1]) \o <<",", " ">> \o ReprItems(Tail(l))

----------------------------------------------------------------------------
\* Inputs

SeqsUpTo(S, n) == UNION {[1..k -> S] : k \in 0..n}

RecipientAddrs == {PyStr(<<"a">>), PyStr(<<"b">>)}
CcAddrs == {PyStr(<<"e">>)}

RecipientLists == SeqsUpTo(RecipientAddrs, MaxList)
CcLists == SeqsUpTo(CcAddrs, MaxList)

RecipientValues ==
    {PyList(L) : L \in RecipientLists}
        \cup {PyStr(JoinStr(<<",">>, L)) : L \in RecipientLists}
CcValues ==
    {PyNone} \cup {PyList(L) : L \in CcLists}
        \cup {PyStr(JoinStr(<<",">>, L)) : L \in CcLists}
HtmlValues == {PyNone, PyStr(<<>>), PyStr(<<"<p>hi</p>">>)}
SenderValues == {PyNone, PyStr(<<"me@x">>)}
SubjectValues == {<<"subj">>}
MessageValues == {<<"body">>}
SlackMessages == {<<"alert">>, <<>>}

AlwaysCopyValues ==
    {PyNone, PyStr(<<"c">>), PyStr(<<"c", ",", "d">>),
     PyList(<<PyStr(<<"c">>)>>)}

SettingsValues ==
    [slack_webhook : {PyNone, PyStr(<<"https://hook">>)},
     slack_proxyhost : {PyNone, PyStr(<<"proxy:3128">>)},
     email_notifications : BOOLEAN,
     email_always_copy : AlwaysCopyValues,
     email_sender_address : {PyStr(<<"hermes@x">>)},
     environment : {"dev", "prod"},
     dev_email_recipient : {PyStr(<<"dev@x">>)}]

----------------------------------------------------------------------------
\* email_message: normalisation of the recipient lists

EmailEnabledNoGuard(s) == TRUE
\* not (not settings.email_notifications)
EmailEnabled(s) == s.email_notifications

\* recipients after "if isinstance(recipients, basestring)"
NormRecipients(r) == IF IsStr(r) THEN Split(r.s) ELSE r.l

\* extra_recipients built from settings.email_always_copy
AlwaysCopyList(ac) == IF IsStr(ac) THEN Split(ac.s) ELSE <<ac>>

\* extra_recipients after the cc branches: a string is appended whole
AddCc(extra, cc) ==
    IF Truthy(cc) /\ IsStr(cc) THEN Append(extra, cc)
    ELSE IF Truthy(cc) THEN extra \o cc.l
    ELSE extra

NoLoc ==
    [recipients |-> <<>>, extra_recipients |-> <<>>, subject |-> <<>>,
     message |-> <<>>, html_message |-> PyNone]

NoArgs ==
    [recipients |-> PyNone, subject |-> <<>>, message |-> <<>>,
     html_message |-> PyNone, cc |-> PyNone, sender |-> PyNone]

----------------------------------------------------------------------------
\* email_message: the dev redirect

RecipientsStatement(l) ==
    <<"To: ">> \o Repr(PyList(l.recipients)) \o <<"   CC: ">>
        \o Repr(PyList(l.extra_recipients)) \o <<"\\n">>

DevSubject(subject) == <<"[DEV] ">> \o subject

DevMessage(l, s) ==
    <<"[DEV]: Sent to ">> \o s.dev_email_recipient.s
        \o <<"\\nOriginally addressed as: ">> \o RecipientsStatement(l)
        \o <<"\\n\\n">> \o l.message

DevHtml(l, s) ==
    IF Truthy(l.html_message)
    THEN PyStr(<<"<p><strong>DEV:</strong> Sent to ">>
                   \o s.dev_email_recipient.s
                   \o <<"<br />Originally addressed as: ">>
                   \o RecipientsStatement(l) \o <<"<br/></p>">>
                   \o l.html_message.s)
    ELSE l.html_message

RedirectedKeepsExtra(l, s) ==
    IF s.environment = "dev"
    THEN [recipients |-> <<s.dev_email_recipient>>,
          extra_recipients |-> l.extra_recipients,
          subject |-> DevSubject(l.subject),
          message |-> DevMessage(l, s),
          html_message |-> DevHtml(l, s)]
    ELSE l
\* the locals after "if settings.environment == 'dev'"
Redirected(l, s) ==
    IF s.environment = "dev"
    THEN [recipients |-> <<s.dev_email_recipient>>,
          extra_recipients |-> <<>>,
          subject |-> DevSubject(l.subject),
          message |-> DevMessage(l, s),
          html_message |-> DevHtml(l, s)]
    ELSE l

----------------------------------------------------------------------------
\* email_message: the MIME message

NoPart == [subtype |-> "none", payload |-> <<>>, headers |-> <<>>]

\* MIMEText(text, subtype) carries three headers of its own
MIMEText(text, subtype) ==
    [subtype |-> subtype, payload |-> text,
     headers |-> <<"Content-Type", "MIME-Version",
                   "Content-Transfer-Encoding">>]

\* truth value of a message object: Message.__len__ counts its headers
PartTruthy(p) == Len(p.headers) > 0

Part1(l) == MIMEText(l.message, "plain")
Part2(l) ==
    IF Truthy(l.html_message) THEN MIMEText(l.html_message.s, "html")
    ELSE NoPart

NoHeaders == [Subject |-> <<>>, From |-> <<>>, To |-> <<>>, Cc |-> <<>>]
NoMsg == [ctype |-> "none", parts |-> <<>>, headers |-> NoHeaders]

BodyHtmlFirst(part1, part2) ==
    IF PartTruthy(part1) /\ PartTruthy(part2)
    THEN [ctype |-> "multipart/alternative", parts |-> <<part2, part1>>,
          headers |-> NoHeaders]
    ELSE [ctype |-> "text/plain", parts |-> <<part1>>, headers |-> NoHeaders]
\* msg after "if part1 and part2"
Body(part1, part2) ==
    IF PartTruthy(part1) /\ PartTruthy(part2)
    THEN [ctype |-> "multipart/alternative", parts |-> <<part1, part2>>,
          headers |-> NoHeaders]
    ELSE [ctype |-> "text/plain", parts |-> <<part1>>, headers |-> NoHeaders]

\* msg["From"]
FromHeader(sender, s) ==
    IF ~Truthy(sender) THEN s.email_sender_address.s ELSE sender.s

HeaderSep == <<",", " ">>

\* msg["To"] and msg["Cc"] raise TypeError on a list with a non-string item
HeadersRaise(l) == JoinRaises(l.recipients) \/ JoinRaises(l.extra_recipients)

Headers(l, sender, s) ==
    [Subject |-> l.subject,
     From |-> FromHeader(sender, s),
     To |-> JoinStr(HeaderSep, l.recipients),
     Cc |-> JoinStr(HeaderSep, l.extra_recipients)]

\* first argument of smtp.sendmail
EnvelopeSenderFromArg(sender, s) ==
    IF ~Truthy(sender) THEN s.email_sender_address ELSE sender
EnvelopeSender(sender, s) == s.email_sender_address

\* second argument of smtp.sendmail
Envelope(l) == l.recipients \o l.extra_recipients

----------------------------------------------------------------------------
\* slack_message

NoProxies == [set |-> FALSE, http |-> <<>>, https |-> <<>>]

\* proxies after "if settings.slack_proxyhost"
Proxies(s) ==
    IF Truthy(s.slack_proxyhost)
    THEN [set |-> TRUE, http |-> <<"http://">> \o s.slack_proxyhost.s,
          https |-> <<"http://">> \o s.slack_proxyhost.s]
    ELSE NoProxies

Payload(message) ==
    [text |-> message, username |-> "Hermes Log", icon_emoji |-> ":hermes:"]

NoSlack == [proxies |-> NoProxies, json |-> Payload(<<>>)]

WebhookSetNoGuard(s) == TRUE
\* not (not settings.slack_webhook)
WebhookSet(s) == Truthy(s.slack_webhook)

----------------------------------------------------------------------------
\* State machine.  pc names the line the running call executes next.

Init ==
    /\ settings \in SettingsValues
    /\ pc = "idle"
    /\ call = "none"
    /\ result = "none"
    /\ args = NoArgs
    /\ loc = NoLoc
    /\ msg = NoMsg
    /\ sent = <<>>
    /\ smtpOpen = 0
    /\ smtpConnects = 0
    /\ httpPosts = <<>>
    /\ slack = NoSlack
    /\ warnings = 0
    /\ debugs = 0

\* a call starts from the caller, with nothing left of an earlier call
StartCall(name) ==
    /\ pc = "idle"
    /\ call' = name
    /\ UNCHANGED <<msg, sent, smtpConnects, httpPosts, warnings, debugs>>

\* slack_message up to the try block
SlackMessage(message) ==
    /\ StartCall("slack")
    /\ args' = NoArgs
    /\ loc' = NoLoc
    /\ IF ~WebhookSet(settings)
       THEN /\ pc' = "done"
            /\ result' = "returned"
            /\ slack' = NoSlack
       ELSE /\ pc' = "l56"
            /\ result' = "none"
            /\ slack' = [proxies |-> Proxies(settings),
                         json |-> Payload(message)]
    /\ UNCHANGED <<settings, smtpOpen>>

ThePost(outcome) ==
    [url |-> settings.slack_webhook.s, json |-> slack.json,
     proxies |-> slack.proxies, outcome |-> outcome]

\* log.debug and requests.post return
SlackPostOk ==
    /\ pc = "l56"
    /\ debugs' = debugs + 1
    /\ httpPosts' = Append(httpPosts, ThePost("ok"))
    /\ pc' = "done"
    /\ result' = "returned"
    /\ UNCHANGED <<settings, call, args, loc, msg, sent, smtpOpen,
                   smtpConnects, slack, warnings>>

SlackPostFailPropagates ==
    /\ pc = "l56"
    /\ debugs' = debugs + 1
    /\ httpPosts' = Append(httpPosts, ThePost("error"))
    /\ pc' = "done"
    /\ result' = "raised"
    /\ UNCHANGED <<settings, call, args, loc, msg, sent, smtpOpen,
                   smtpConnects, slack, warnings>>
\* requests.post raises; except Exception logs a warning
SlackPostFail ==
    /\ pc = "l56"
    /\ debugs' = debugs + 1
    /\ httpPosts' = Append(httpPosts, ThePost("error"))
    /\ warnings' = warnings + 1
    /\ pc' = "done"
    /\ result' = "returned"
    /\ UNCHANGED <<settings, call, args, loc, msg, sent, smtpOpen,
                   smtpConnects, slack>>

\* email_message up to the dev-environment test
EmailMessage(recipients, subject, message, html_message, cc, sender) ==
    /\ StartCall("email")
    /\ smtpOpen < MaxOpen
    /\ args' = [recipients |-> recipients, subject |-> subject,
                message |-> message, html_message |-> html_message,
                cc |-> cc, sender |-> sender]
    /\ slack' = NoSlack
    /\ IF ~EmailEnabled(settings)
       THEN /\ pc' = "done"
            /\ result' = "returned"
            /\ loc' = NoLoc
       ELSE /\ pc' = "l94"
            /\ result' = "none"
            /\ loc' = [recipients |-> NormRecipients(recipients),
                       extra_recipients |->
                           AddCc(AlwaysCopyList(settings.email_always_copy),
                                 cc),
                       subject |-> subject,
                       message |-> message,
                       html_message |-> html_message]
    /\ UNCHANGED <<settings, smtpOpen>>

\* the dev redirect
DevRedirect ==
    /\ pc = "l94"
    /\ loc' = Redirected(loc, settings)
    /\ pc' = "l118"
    /\ UNCHANGED <<settings, call, result, args, msg, sent, smtpOpen,
                   smtpConnects, httpPosts, slack, warnings, debugs>>

\* the message, its headers and logging.debug; the joins are outside the try
BuildMessage ==
    /\ pc = "l118"
    /\ IF HeadersRaise(loc)
       THEN /\ pc' = "done"
            /\ result' = "raised"
            /\ UNCHANGED <<msg, debugs>>
       ELSE /\ msg' = [Body(Part1(loc), Part2(loc)) EXCEPT
                          !.headers = Headers(loc, args.sender, settings)]
            /\ debugs' = debugs + 1
            /\ pc' = "l143"
            /\ UNCHANGED result
    /\ UNCHANGED <<settings, call, args, loc, sent, smtpOpen, smtpConnects,
                   httpPosts, slack, warnings>>

\* smtplib.SMTP("localhost") returns
SmtpConnectOk ==
    /\ pc = "l143"
    /\ smtpConnects' = smtpConnects + 1
    /\ smtpOpen' = smtpOpen + 1
    /\ pc' = "l144"
    /\ UNCHANGED <<settings, call, result, args, loc, msg, sent, httpPosts,
                   slack, warnings, debugs>>

\* smtplib.SMTP("localhost") raises
SmtpConnectFail ==
    /\ pc = "l143"
    /\ warnings' = warnings + 1
    /\ pc' = "done"
    /\ result' = "returned"
    /\ UNCHANGED <<settings, call, args, loc, msg, sent, smtpOpen,
                   smtpConnects, httpPosts, slack, debugs>>

\* smtp.sendmail returns
SendmailOk ==
    /\ pc = "l144"
    /\ sent' = Append(sent, [from_addr |->
                                 EnvelopeSender(args.sender, settings),
                             to_addrs |-> Envelope(loc),
                             msg |-> msg])
    /\ pc' = "l149"
    /\ UNCHANGED <<settings, call, result, args, loc, msg, smtpOpen,
                   smtpConnects, httpPosts, slack, warnings, debugs>>

\* smtp.sendmail raises: control jumps over smtp.quit() to the handler
SendmailFail ==
    /\ pc = "l144"
    /\ warnings' = warnings + 1
    /\ pc' = "done"
    /\ result' = "returned"
    /\ UNCHANGED <<settings, call, args, loc, msg, sent, smtpOpen,
                   smtpConnects, httpPosts, slack, debugs>>

\* smtp.quit() returns
QuitOk ==
    /\ pc = "l149"
    /\ smtpOpen' = smtpOpen - 1
    /\ pc' = "done"
    /\ result' = "returned"
    /\ UNCHANGED <<settings, call, args, loc, msg, sent, smtpConnects,
                   httpPosts, slack, warnings, debugs>>

\* smtp.quit() raises; whether the socket was closed first is the library's
QuitFail ==
    /\ pc = "l149"
    /\ \E closed \in BOOLEAN :
           smtpOpen' = IF closed THEN smtpOpen - 1 ELSE smtpOpen
    /\ warnings' = warnings + 1
    /\ pc' = "done"
    /\ result' = "returned"
    /\ UNCHANGED <<settings, call, args, loc, msg, sent, smtpConnects,
                   httpPosts, slack, debugs>>

\* control is back in the caller: the frame of the call and what was observed
\* of it are dropped; connections that were not closed stay open
Return ==
    /\ pc = "done"
    /\ pc' = "idle"
    /\ call' = "none"
    /\ result' = "none"
    /\ args' = NoArgs
    /\ loc' = NoLoc
    /\ msg' = NoMsg
    /\ sent' = <<>>
    /\ smtpConnects' = 0
    /\ httpPosts' = <<>>
    /\ slack' = NoSlack
    /\ warnings' = 0
    /\ debugs' = 0
    /\ UNCHANGED <<settings, smtpOpen>>

SlackCall == \E m \in SlackMessages : SlackMessage(m)

EmailCall ==
    \E r \in RecipientValues, su \in SubjectValues, m \in MessageValues,
       h \in HtmlValues, c \in CcValues, sn \in SenderValues :
        EmailMessage(r, su, m, h, c, sn)

Next ==
    \/ SlackCall
    \/ SlackPostOk
    \/ SlackPostFail
    \/ EmailCall
    \/ DevRedirect
    \/ BuildMessage
    \/ SmtpConnectOk
    \/ SmtpConnectFail
    \/ SendmailOk
    \/ SendmailFail
    \/ QuitOk
    \/ QuitFail
    \/ Return

Spec == Init /\ [][Next]_vars

----------------------------------------------------------------------------
\* Properties

AllAddrs ==
    RecipientAddrs \cup CcAddrs \cup {PyStr(<<"c">>), PyStr(<<"d">>)}

\* the list of addresses that a comma-joined string was joined from
EquivList(v) ==
    CHOOSE L \in SeqsUpTo(AllAddrs, MaxList) : JoinStr(<<",">>, L) = v.s

\* the addresses a caller or the configuration names, however they are passed
AddrsOf(v) ==
    CASE v.t = "none" -> <<>>
      [] v.t = "str" -> EquivList(v)
      [] v.t = "list" -> v.l

\* C1: in the dev environment with email enabled, every SMTP submission has
\* the envelope recipient list [dev_email_recipient] and nothing else, whatever
\* recipients, cc and always-copy were.
C1_DevEnvelope ==
    (settings.environment = "dev" /\ settings.email_notifications)
        => \A i \in DOMAIN sent :
               sent[i].to_addrs = <<settings.dev_email_recipient>>

C1_Witness ==
    /\ settings.environment = "dev"
    /\ call = "email"
    /\ Len(sent) = 1
    /\ Len(args.recipients.l) = 2
    /\ Truthy(args.cc)
    /\ settings.email_always_copy = PyStr(<<"c", ",", "d">>)

\* C2: email_message never raises to the caller, for every string or list
\* recipients and cc, every environment and every always-copy configuration
\* (string, list or absent).
C2_NeverRaises == call = "email" => result # "raised"

\* C3: with email notifications disabled, email_message returns at once: no
\* SMTP connection is opened, no message is built and nothing is logged.
C3_DisabledNoOp ==
    (call = "email" /\ ~settings.email_notifications)
        => /\ pc = "done"
           /\ result = "returned"
           /\ smtpConnects = 0
           /\ sent = <<>>
           /\ msg = NoMsg
           /\ debugs = 0
           /\ warnings = 0

C3_Witness ==
    /\ call = "email"
    /\ ~settings.email_notifications
    /\ pc = "done"
    /\ Truthy(args.recipients)
    /\ Truthy(args.html_message)
    /\ settings.environment = "prod"

\* C4: recipients and cc passed as one comma-joined string normalise to the
\* same recipient and extra lists as the equivalent list of addresses.
C4_StringEqualsList ==
    pc = "l94" =>
        /\ (IsStr(args.recipients) /\ Truthy(args.recipients))
               => loc.recipients
                      = NormRecipients(PyList(EquivList(args.recipients)))
        /\ (IsStr(args.cc) /\ Truthy(args.cc))
               => loc.extra_recipients
                      = AddCc(AlwaysCopyList(settings.email_always_copy),
                              PyList(EquivList(args.cc)))

\* C5: outside dev, the envelope submitted to SMTP is the normalised
\* recipients, then the always-copy addresses, then the cc addresses, with
\* duplicates kept; To is the recipients and Cc the extra list, joined by ", ".
C5_ProdEnvelope ==
    settings.environment # "dev" =>
        \A i \in DOMAIN sent :
            LET r == NormRecipients(args.recipients)
                extra == AddrsOf(settings.email_always_copy)
                             \o AddrsOf(args.cc)
            IN /\ sent[i].to_addrs = r \o extra
               /\ sent[i].msg.headers.To = JoinStr(HeaderSep, r)
               /\ sent[i].msg.headers.Cc = JoinStr(HeaderSep, extra)

\* C6: the built message has exactly one part, plain text, when html_message
\* is omitted or empty, and otherwise is multipart/alternative with exactly
\* two parts, plain first and html second, in dev as well as outside it.
C6_Parts ==
    msg # NoMsg =>
        IF Truthy(args.html_message)
        THEN /\ msg.ctype = "multipart/alternative"
             /\ Len(msg.parts) = 2
             /\ msg.parts[1].subtype = "plain"
             /\ msg.parts[2].subtype = "html"
        ELSE /\ msg.ctype = "text/plain"
             /\ Len(msg.parts) = 1
             /\ msg.parts[1].subtype = "plain"

C6_Witness ==
    /\ settings.environment = "dev"
    /\ Truthy(args.html_message)
    /\ Len(sent) = 1
    /\ Len(sent[1].msg.parts) = 2

\* C7: when the webhook is configured and the post raises, slack_message
\* returns normally, as it does on success, and one warning is logged.
C7_SlackFailureSwallowed ==
    (call = "slack" /\ pc = "done")
        => /\ result = "returned"
           /\ (\E i \in DOMAIN httpPosts : httpPosts[i].outcome = "error")
                  => warnings = 1

C7_Witness ==
    /\ call = "slack"
    /\ pc = "done"
    /\ Len(httpPosts) = 1
    /\ httpPosts[1].outcome = "error"
    /\ warnings = 1

\* C8: without a webhook slack_message makes no network call, whatever the
\* message and the proxy configuration; with one it makes exactly one POST to
\* that URL per call.
C8_PostCount ==
    call = "slack" =>
        IF Truthy(settings.slack_webhook)
        THEN pc = "done" => /\ Len(httpPosts) = 1
                            /\ httpPosts[1].url = settings.slack_webhook.s
        ELSE pc = "done" /\ httpPosts = <<>>

C8_Witness ==
    /\ call = "slack"
    /\ pc = "done"
    /\ ~Truthy(settings.slack_webhook)
    /\ Truthy(settings.slack_proxyhost)
    /\ httpPosts = <<>>

\* C9: every connection an email_message call opened is closed by the time
\* the call returns, so no SMTP connection is open after a call.
C9_ConnectionClosed == (call = "email" /\ pc = "done") => smtpOpen = 0

\* C10: the sender argument sets only the From header (the configured sender
\* when none is given); the envelope sender is always the configured address.
C10_SenderOnlyFrom ==
    \A i \in DOMAIN sent :
        /\ sent[i].from_addr = settings.email_sender_address
        /\ sent[i].msg.headers.From
               = IF Truthy(args.sender) THEN args.sender.s
                 ELSE settings.email_sender_address.s

C10_Witness ==
    /\ Len(sent) = 1
    /\ Truthy(args.sender)
    /\ args.sender # settings.email_sender_address
    /\ sent[1].msg.headers.From = args.sender.s
    /\ sent[1].from_addr = settings.email_sender_address

====
